---------------------------- MODULE Spec2Model ----------------------------
(***************************************************************************)
(* Churn prediction: the offline pipeline (src/src/preprocessing.py,       *)
(* src/src/train.py) and the inference service (src/api/main.py).          *)
(*                                                                         *)
(* Representation.                                                         *)
(*   - Python str   : a TLA+ string; strip/lower/in are computed on it.    *)
(*   - Python float : an integer number of hundredths (70.0 is 7000).      *)
(*     A float that may be NaN is a record [nan, v] (see F, NaNv).         *)
(*   - probability  : an integer number of thousandths (0.496 is 496).     *)
(*   - dict / row   : a function from column names (strings) to values.    *)
(*   - DataFrame    : [cols |-> sequence of names, rows |-> sequence of    *)
(*                     functions from the names to cell values].           *)
(***************************************************************************)
EXTENDS Integers, Sequences, FiniteSets, TLC

VARIABLES
    data_file,      \* data/churn.csv: absent, or which table it holds
    model_file,     \* models/churn_model.joblib: NoFile or the dumped model
    scaler_file,    \* models/scaler.joblib: NoFile or the dumped scaler
    fc_file,        \* models/feature_columns.json: NoFile or the column list
    train,          \* the running training / preprocessing process
    runs,           \* number of pipeline runs started so far (run identity)
    svc,            \* position of the service process in lifespan()
    app_state,      \* api/main.py app_state
    request,        \* the request last given to a handler
    response,       \* what that handler returned
    enc             \* inputs and results of the functions applied on their own

vars == <<data_file, model_file, scaler_file, fc_file, train, runs, svc,
          app_state, request, response, enc>>

-----------------------------------------------------------------------------
(* Bounds of the model.                                                    *)

MaxTenure == 62
MaxCharge == 5
MaxRuns == 2

-----------------------------------------------------------------------------
(* Python str operations.                                                  *)

UpperToLower ==
    [A |-> "a", B |-> "b", C |-> "c", D |-> "d", E |-> "e", F |-> "f",
     G |-> "g", H |-> "h", I |-> "i", J |-> "j", K |-> "k", L |-> "l",
     M |-> "m", N |-> "n", O |-> "o", P |-> "p", Q |-> "q", R |-> "r",
     S |-> "s", T |-> "t", U |-> "u", V |-> "v", W |-> "w", X |-> "x",
     Y |-> "y", Z |-> "z"]

\* str.lower()
RECURSIVE Lower(_)
Lower(s) ==
    IF Len(s) = 0 THEN ""
    ELSE IF Len(s) = 1
    THEN IF s \in DOMAIN UpperToLower THEN UpperToLower[s] ELSE s
    ELSE LET half == Len(s) \div 2
         IN Lower(SubSeq(s, 1, half)) \o Lower(SubSeq(s, half + 1, Len(s)))

Whitespace == {" ", "\t", "\n", "\r"}

RECURSIVE LStrip(_)
LStrip(s) ==
    IF Len(s) > 0 /\ Head(s) \in Whitespace THEN LStrip(Tail(s)) ELSE s

RECURSIVE RStrip(_)
RStrip(s) ==
    IF Len(s) > 0 /\ SubSeq(s, Len(s), Len(s)) \in Whitespace
    THEN RStrip(SubSeq(s, 1, Len(s) - 1))
    ELSE s

\* str.strip()
Strip(s) == RStrip(LStrip(s))

\* sub in s
Contains(s, sub) ==
    \E i \in 1..(Len(s) - Len(sub) + 1) : SubSeq(s, i, i + Len(sub) - 1) = sub

\* dict assignment row[k] = v
Put(row, k, v) ==
    [c \in (DOMAIN row) \cup {k} |-> IF c = k THEN v ELSE row[c]]

Range(s) == {s[i] : i \in DOMAIN s}

\* for c in names: row[c] = 0
ZeroAll(row, names) ==
    LET zeroed == Range(names)
    IN [c \in (DOMAIN row) \cup zeroed |-> IF c \in zeroed THEN 0 ELSE row[c]]

\* A float that may be NaN; float(n) of an int n.
F(v) == [nan |-> FALSE, v |-> v]
NaNv == [nan |-> TRUE, v |-> 0]
IntToFloat(n) == F(100 * n)

-----------------------------------------------------------------------------
(* api/main.py: request schema and feature construction.                   *)

\* A PredictRequest: the required fields given, every optional field at its
\* default.
BaseRequest ==
    [tenure |-> 5, monthly_charges |-> 300, contract |-> "Month-to-month",
     internet_service |-> "Fiber optic", payment_method |-> "Electronic check",
     paperless_billing |-> "Yes", tech_support |-> "No",
     online_security |-> "No", gender |-> "Male", senior_citizen |-> 0,
     partner |-> "No", dependents |-> "No", phone_service |-> "Yes",
     online_backup |-> "No", device_protection |-> "No",
     streaming_tv |-> "No", streaming_movies |-> "No",
     multiple_lines |-> "No"]

\* _bucket_tenure with the first boundary at 12 instead of 13.
MutBucketTenure(tenure) ==
    IF tenure < 12 THEN "0-12"
    ELSE IF tenure < 25 THEN "13-24"
    ELSE IF tenure < 49 THEN "25-48"
    ELSE IF tenure < 61 THEN "49-60"
    ELSE "60+"

_bucket_tenure(tenure) ==
    IF tenure < 13 THEN "0-12"
    ELSE IF tenure < 25 THEN "13-24"
    ELSE IF tenure < 49 THEN "25-48"
    ELSE IF tenure < 61 THEN "49-60"
    ELSE "60+"

\* _bucket_monthly with the lower threshold excluded from "low".
MutBucketMonthly(monthly_charges, q33, q66) ==
    IF monthly_charges < q33 THEN "low"
    ELSE IF monthly_charges <= q66 THEN "medium"
    ELSE "high"

_bucket_monthly(monthly_charges, q33, q66) ==
    IF monthly_charges <= q33 THEN "low"
    ELSE IF monthly_charges <= q66 THEN "medium"
    ELSE "high"

\* 1 if value.strip().lower() == word else 0
Flag(value, word) == IF Lower(Strip(value)) = word THEN 1 ELSE 0

ContractColumns ==
    <<"Contract_Month-to-month", "Contract_One year", "Contract_Two year">>
InternetColumns ==
    <<"InternetService_DSL", "InternetService_Fiber optic", "InternetService_No">>
PaymentColumns ==
    <<"PaymentMethod_Bank transfer (automatic)",
      "PaymentMethod_Credit card (automatic)",
      "PaymentMethod_Electronic check", "PaymentMethod_Mailed check">>
MultipleLinesColumns ==
    <<"MultipleLines_No", "MultipleLines_No phone service", "MultipleLines_Yes">>
TenureGroupColumns ==
    <<"tenure_group_0-12", "tenure_group_13-24", "tenure_group_25-48",
      "tenure_group_49-60", "tenure_group_60+">>
MonthlyBucketColumns ==
    <<"monthly_charges_bucket_low", "monthly_charges_bucket_medium",
      "monthly_charges_bucket_high">>

\* The dict literal of build_feature_row.
BaseRow(req) ==
    LET total_charges == req.tenure * req.monthly_charges
        total_spend == req.tenure * req.monthly_charges
    IN [gender |-> Flag(req.gender, "male"),
        SeniorCitizen |-> req.senior_citizen,
        Partner |-> Flag(req.partner, "yes"),
        Dependents |-> Flag(req.dependents, "yes"),
        tenure |-> req.tenure,
        PhoneService |-> Flag(req.phone_service, "yes"),
        OnlineSecurity |-> Flag(req.online_security, "yes"),
        OnlineBackup |-> Flag(req.online_backup, "yes"),
        DeviceProtection |-> Flag(req.device_protection, "yes"),
        TechSupport |-> Flag(req.tech_support, "yes"),
        StreamingTV |-> Flag(req.streaming_tv, "yes"),
        StreamingMovies |-> Flag(req.streaming_movies, "yes"),
        PaperlessBilling |-> Flag(req.paperless_billing, "yes"),
        MonthlyCharges |-> req.monthly_charges,
        TotalCharges |-> total_charges,
        total_spend |-> total_spend]

\* OneHotIfKnown without the "if key in row" test.
MutOneHotIfKnown(row, columns, prefix, value) ==
    Put(ZeroAll(row, columns), prefix \o Strip(value), 1)

\* The zero-fill loop of a group, then "if key in row: row[key] = 1".
OneHotIfKnown(row, columns, prefix, value) ==
    LET zeroed == ZeroAll(row, columns)
        key == prefix \o Strip(value)
    IN IF key \in DOMAIN zeroed THEN Put(zeroed, key, 1) ELSE zeroed

\* PaymentColumn with the Mailed test ahead of the Electronic test.
MutPaymentColumn(payment_method) ==
    LET pm == Strip(payment_method)
    IN IF Contains(pm, "Bank transfer")
            \/ (Contains(pm, "automatic") /\ Contains(pm, "Bank"))
       THEN "PaymentMethod_Bank transfer (automatic)"
       ELSE IF Contains(pm, "Credit card") \/ Contains(pm, "Credit card (automatic)")
       THEN "PaymentMethod_Credit card (automatic)"
       ELSE IF Contains(pm, "Mailed")
       THEN "PaymentMethod_Mailed check"
       ELSE IF Contains(pm, "Electronic")
       THEN "PaymentMethod_Electronic check"
       ELSE "PaymentMethod_Electronic check"

\* The if/elif chain over pm; "or" binds weaker than "and".
PaymentColumn(payment_method) ==
    LET pm == Strip(payment_method)
    IN IF Contains(pm, "Bank transfer")
            \/ (Contains(pm, "automatic") /\ Contains(pm, "Bank"))
       THEN "PaymentMethod_Bank transfer (automatic)"
       ELSE IF Contains(pm, "Credit card") \/ Contains(pm, "Credit card (automatic)")
       THEN "PaymentMethod_Credit card (automatic)"
       ELSE IF Contains(pm, "Electronic")
       THEN "PaymentMethod_Electronic check"
       ELSE IF Contains(pm, "Mailed")
       THEN "PaymentMethod_Mailed check"
       ELSE "PaymentMethod_Electronic check"

MultipleLinesColumn(multiple_lines) ==
    LET ml == Lower(Strip(multiple_lines))
    IN IF Contains(ml, "no phone") THEN "MultipleLines_No phone service"
       ELSE IF ml = "yes" THEN "MultipleLines_Yes"
       ELSE "MultipleLines_No"

\* build_feature_row with Contract_Month-to-month set whatever the contract.
MutBuildFeatureRow(req, q33, q66) ==
    LET zeroed == ZeroAll(BaseRow(req), ContractColumns \o InternetColumns
                            \o PaymentColumns \o MultipleLinesColumns
                            \o TenureGroupColumns \o MonthlyBucketColumns)
        r1 == Put(zeroed, "Contract_Month-to-month", 1)
        r2 == OneHotIfKnown(r1, InternetColumns, "InternetService_", req.internet_service)
        r3 == Put(r2, PaymentColumn(req.payment_method), 1)
        r4 == Put(r3, MultipleLinesColumn(req.multiple_lines), 1)
        r5 == Put(r4, "tenure_group_" \o _bucket_tenure(req.tenure), 1)
    IN Put(r5, "monthly_charges_bucket_"
                 \o _bucket_monthly(req.monthly_charges, q33, q66), 1)

build_feature_row(req, q33, q66) ==
    LET tenure_group == _bucket_tenure(req.tenure)
        monthly_bucket == _bucket_monthly(req.monthly_charges, q33, q66)
        r0 == BaseRow(req)
        r1 == OneHotIfKnown(r0, ContractColumns, "Contract_", req.contract)
        r2 == OneHotIfKnown(r1, InternetColumns, "InternetService_",
                            req.internet_service)
        r3 == Put(ZeroAll(r2, PaymentColumns),
                  PaymentColumn(req.payment_method), 1)
        r4 == Put(ZeroAll(r3, MultipleLinesColumns),
                  MultipleLinesColumn(req.multiple_lines), 1)
        r5 == Put(ZeroAll(r4, TenureGroupColumns),
                  "tenure_group_" \o tenure_group, 1)
    IN Put(ZeroAll(r5, MonthlyBucketColumns),
           "monthly_charges_bucket_" \o monthly_bucket, 1)

-----------------------------------------------------------------------------
(* pandas / numpy / scikit-learn operations the pipeline calls.            *)

\* A bin edge: a finite number, -inf or +inf.
Fin(v) == [inf |-> 0, v |-> v]
NegInf == [inf |-> -1, v |-> 0]
PosInf == [inf |-> 1, v |-> 0]
ExtLess(a, b) == a.inf < b.inf \/ (a.inf = 0 /\ b.inf = 0 /\ a.v < b.v)

\* A raised exception, as the value of the call that raised it.
Raised(name) == [err |-> name]
IsErr(r) == "err" \in DOMAIN r

\* pd.cut(values, bins=bins, labels=labels, right=right): ValueError when
\* the edges decrease or repeat, else one label per value, "NaN" for a value
\* that no bin holds.
PdCut(values, bins, labels, right) ==
    IF \E i \in 1..(Len(bins) - 1) : ExtLess(bins[i + 1], bins[i])
    THEN Raised("ValueError")
    ELSE IF Cardinality(Range(bins)) < Len(bins) /\ Len(bins) # 2
    THEN Raised("ValueError")
    ELSE [labels |->
            [k \in DOMAIN values |->
                LET x == Fin(values[k])
                    hit == {i \in 1..(Len(bins) - 1) :
                              IF right
                              THEN ExtLess(bins[i], x) /\ ~ExtLess(bins[i + 1], x)
                              ELSE ~ExtLess(x, bins[i]) /\ ExtLess(x, bins[i + 1])}
                IN IF hit = {} THEN "NaN" ELSE labels[CHOOSE i \in hit : TRUE]]]

\* Series.quantile(q) with q = q100 / 100, linear interpolation between the
\* two nearest order statistics.
Quantile(values, q100) ==
    LET sorted == SortSeq(values, LAMBDA a, b : a < b)
        h100 == q100 * (Len(sorted) - 1)
        lo == h100 \div 100
        frac == h100 % 100
    IN IF frac = 0 THEN sorted[lo + 1]
       ELSE sorted[lo + 1] + (frac * (sorted[lo + 2] - sorted[lo + 1])) \div 100

RECURSIVE SumSeq(_)
SumSeq(s) == IF s = <<>> THEN 0 ELSE Head(s) + SumSeq(Tail(s))

SelectFinite(floats) ==
    LET fin == SelectSeq(floats, LAMBDA x : ~x.nan)
    IN [i \in DOMAIN fin |-> fin[i].v]

\* Series.median(): NaN values are skipped; NaN when nothing is left.
Median(floats) ==
    LET sorted == SortSeq(SelectFinite(floats), LAMBDA a, b : a < b)
        n == Len(sorted)
    IN IF n = 0 THEN NaNv
       ELSE IF n % 2 = 1 THEN F(sorted[(n + 1) \div 2])
       ELSE F((sorted[n \div 2] + sorted[n \div 2 + 1]) \div 2)

DigitValue ==
    [c \in {"0", "1", "2", "3", "4", "5", "6", "7", "8", "9"} |->
        CASE c = "0" -> 0 [] c = "1" -> 1 [] c = "2" -> 2 [] c = "3" -> 3
          [] c = "4" -> 4 [] c = "5" -> 5 [] c = "6" -> 6 [] c = "7" -> 7
          [] c = "8" -> 8 [] c = "9" -> 9]

RECURSIVE ParseDigits(_, _)
ParseDigits(s, acc) ==
    IF Len(s) = 0 THEN acc
    ELSE ParseDigits(Tail(s), 10 * acc + DigitValue[Head(s)])

\* pd.to_numeric(cell, errors="coerce") on a text cell: a whole number of
\* units parses to that many hundredths, anything else becomes NaN.
ToNumeric(cell) ==
    LET t == Strip(cell)
    IN IF Len(t) > 0 /\ \A i \in 1..Len(t) : SubSeq(t, i, i) \in DOMAIN DigitValue
       THEN F(100 * ParseDigits(t, 0))
       ELSE NaNv

RECURSIVE ISqrtIn(_, _, _)
ISqrtIn(n, lo, hi) ==
    IF lo >= hi THEN lo
    ELSE LET mid == (lo + hi + 1) \div 2
         IN IF mid * mid <= n THEN ISqrtIn(n, mid, hi) ELSE ISqrtIn(n, lo, mid - 1)

\* floor(sqrt(n)) for the magnitudes the scaler meets.
ISqrt(n) == ISqrtIn(n, 0, 46340)

\* StandardScaler.fit on one column: mean_ and scale_ = sqrt(var_), NaN
\* cells skipped, a zero scale replaced by 1.0.
FitColumn(floats) ==
    LET xs == SelectFinite(floats)
        n == Len(xs)
    IN IF n = 0 THEN [mean |-> NaNv, scale |-> NaNv]
       ELSE LET mean == SumSeq(xs) \div n
                var == SumSeq([i \in DOMAIN xs |-> (xs[i] - mean) * (xs[i] - mean)]) \div n
                sd == ISqrt(var)
            IN [mean |-> F(mean), scale |-> F(IF sd = 0 THEN 100 ELSE sd)]

\* StandardScaler.transform on one value: (x - mean_) / scale_, in hundredths.
TransformValue(x, stat) ==
    IF x.nan \/ stat.mean.nan \/ stat.scale.nan THEN NaNv
    ELSE F(((x.v - stat.mean.v) * 100) \div stat.scale.v)

\* ASCII order of the characters column values are made of.
Ascii == " ()+-0123456789ABCDEFGHIJKLMNOPQRSTUVWXYZ_abcdefghijklmnopqrstuvwxyz"
CharCode(c) == CHOOSE i \in 1..Len(Ascii) : SubSeq(Ascii, i, i) = c

RECURSIVE StrLess(_, _)
StrLess(a, b) ==
    IF Len(b) = 0 THEN FALSE
    ELSE IF Len(a) = 0 THEN TRUE
    ELSE IF Head(a) = Head(b) THEN StrLess(Tail(a), Tail(b))
    ELSE CharCode(Head(a)) < CharCode(Head(b))

RECURSIVE SetToSeq(_)
SetToSeq(S) ==
    IF S = {} THEN <<>>
    ELSE LET x == CHOOSE x \in S : TRUE IN <<x>> \o SetToSeq(S \ {x})

\* The sorted distinct values of a text column.
SortedUnique(values) == SortSeq(SetToSeq(Range(values)), StrLess)

HasCol(df, c) == c \in Range(df.cols)
Column(df, c) == [i \in DOMAIN df.rows |-> df.rows[i][c]]
DropCols(df, names) ==
    LET keep == SelectSeq(df.cols, LAMBDA c : c \notin names)
    IN [cols |-> keep,
        rows |-> [i \in DOMAIN df.rows |-> [c \in Range(keep) |-> df.rows[i][c]]]]
\* df[c] = values (a new column goes last)
SetCol(df, c, values) ==
    [cols |-> IF HasCol(df, c) THEN df.cols ELSE Append(df.cols, c),
     rows |-> [i \in DOMAIN df.rows |-> Put(df.rows[i], c, values[i])]]

-----------------------------------------------------------------------------
(* src/preprocessing.py                                                    *)

\* load_and_clean_data, from the table read from the csv on.
load_and_clean_data(table) ==
    LET d1 == IF HasCol(table, "customerID")
              THEN DropCols(table, {"customerID"}) ELSE table
    IN IF HasCol(d1, "TotalCharges")
       THEN LET numeric == [i \in DOMAIN d1.rows |->
                               ToNumeric(d1.rows[i]["TotalCharges"])]
                median_total == Median(numeric)
            IN SetCol(d1, "TotalCharges",
                      [i \in DOMAIN numeric |->
                          IF numeric[i].nan THEN median_total ELSE numeric[i]])
       ELSE d1

encode_target(df) ==
    IF ~HasCol(df, "Churn") THEN Raised("ValueError")
    ELSE SetCol(df, "Churn",
                [i \in DOMAIN df.rows |->
                    IF df.rows[i]["Churn"] = "Yes" THEN 1 ELSE 0])

bins_tenure == <<Fin(0), Fin(13), Fin(25), Fin(49), Fin(61), PosInf>>
labels_tenure == <<"0-12", "13-24", "25-48", "49-60", "60+">>
labels_monthly == <<"low", "medium", "high">>

\* The tenure binning of add_engineered_features.
TenureCut(tenures) == PdCut(tenures, bins_tenure, labels_tenure, FALSE)

\* The monthly-charge binning of add_engineered_features, given q33 and q66.
MonthlyCut(charges, q33, q66) ==
    PdCut(charges, <<NegInf, Fin(q33), Fin(q66), PosInf>>, labels_monthly, TRUE)

\* q33 and q66 as add_engineered_features (and lifespan) compute them.
MonthlyQuantiles(df) ==
    [q33 |-> Quantile(Column(df, "MonthlyCharges"), 33),
     q66 |-> Quantile(Column(df, "MonthlyCharges"), 66)]

add_engineered_features(df) ==
    LET tenure_group == TenureCut(Column(df, "tenure"))
        q == MonthlyQuantiles(df)
        bucket == MonthlyCut(Column(df, "MonthlyCharges"), q.q33, q.q66)
    IN IF IsErr(tenure_group) THEN tenure_group
       ELSE IF IsErr(bucket) THEN bucket
       ELSE SetCol(SetCol(SetCol(df, "tenure_group", tenure_group.labels),
                          "monthly_charges_bucket", bucket.labels),
                   "total_spend",
                   [i \in DOMAIN df.rows |->
                       df.rows[i]["tenure"] * df.rows[i]["MonthlyCharges"]])

binary_cols ==
    <<"gender", "Partner", "Dependents", "PhoneService", "PaperlessBilling",
      "OnlineSecurity", "OnlineBackup", "DeviceProtection", "TechSupport",
      "StreamingTV", "StreamingMovies">>

\* (df[col] == "Yes").astype(int), the same in both branches.
BinaryValue(col, cell) == IF cell = "Yes" THEN 1 ELSE 0

\* The loop over binary_cols: each column present is replaced, cell by
\* cell, and the others are left as they are.
encode_binary_columns(df) ==
    LET present == {c \in Range(binary_cols) : HasCol(df, c)}
    IN [cols |-> df.cols,
        rows |-> [i \in DOMAIN df.rows |->
                    [c \in DOMAIN df.rows[i] |->
                        IF c \in present THEN BinaryValue(c, df.rows[i][c])
                        ELSE df.rows[i][c]]]]

categorical_cols ==
    <<"Contract", "InternetService", "PaymentMethod", "MultipleLines",
      "tenure_group", "monthly_charges_bucket">>

\* The categories pd.get_dummies makes indicator columns for: every label
\* of a binned (category-typed) column, the sorted distinct values of a
\* text column.
Categories(df, c) ==
    IF c = "tenure_group" THEN labels_tenure
    ELSE IF c = "monthly_charges_bucket" THEN labels_monthly
    ELSE SortedUnique(Column(df, c))

\* The indicator columns of the columns encoded, in the order pd.get_dummies
\* appends them: its name, the column it comes from and the category it marks.
RECURSIVE DummyColumns(_, _)
DummyColumns(df, todo) ==
    IF todo = <<>> THEN <<>>
    ELSE LET c == Head(todo)
             cats == Categories(df, c)
         IN [k \in DOMAIN cats |->
                [name |-> (c \o "_") \o cats[k], col |-> c, cat |-> cats[k]]]
            \o DummyColumns(df, Tail(todo))

\* pd.get_dummies(df, columns=columns, drop_first=False, dtype=int): the
\* encoded columns leave the table and their indicator columns go last.
GetDummies(df, columns) ==
    LET dummies == DummyColumns(df, columns)
        kept == DropCols(df, Range(columns))
        names == [k \in DOMAIN dummies |-> dummies[k].name]
        Indicator(i, n) ==
            LET d == dummies[CHOOSE k \in DOMAIN dummies : dummies[k].name = n]
            IN IF df.rows[i][d.col] = d.cat THEN 1 ELSE 0
    IN [cols |-> kept.cols \o names,
        rows |-> [i \in DOMAIN df.rows |->
                    [n \in Range(kept.cols) \cup Range(names) |->
                        IF n \in Range(names) THEN Indicator(i, n)
                        ELSE kept.rows[i][n]]]]

one_hot_encode_categorical(df) ==
    LET to_encode == SelectSeq(categorical_cols, LAMBDA c : HasCol(df, c))
    IN IF to_encode = <<>> THEN df ELSE GetDummies(df, to_encode)

numerical_cols == <<"tenure", "MonthlyCharges", "TotalCharges", "total_spend">>

\* df[existing_num].astype(float), one cell: tenure is an int column,
\* TotalCharges was made float by load_and_clean_data.
AsFloat(c, cell) ==
    IF c = "TotalCharges" THEN cell
    ELSE IF c = "tenure" THEN IntToFloat(cell)
    ELSE F(cell)

\* scale_numerical_features(df, fit=True): the scaled table and the scaler.
scale_numerical_features(df) ==
    LET existing_num == SelectSeq(numerical_cols, LAMBDA c : HasCol(df, c))
        floats(c) == [i \in DOMAIN df.rows |-> AsFloat(c, df.rows[i][c])]
        stats == [k \in DOMAIN existing_num |-> FitColumn(floats(existing_num[k]))]
        StatOf(c) == stats[CHOOSE k \in DOMAIN existing_num : existing_num[k] = c]
    IN [df |-> [cols |-> df.cols,
                rows |-> [i \in DOMAIN df.rows |->
                            [c \in DOMAIN df.rows[i] |->
                                IF c \in Range(existing_num)
                                THEN TransformValue(floats(c)[i], StatOf(c))
                                ELSE df.rows[i][c]]]],
        scaler |-> [stats |-> stats]]

\* preprocess(): the table ready for training and the fitted scaler, or the
\* exception raised on the way.
preprocess(table) ==
    LET cleaned == load_and_clean_data(table)
        target == encode_target(cleaned)
        engineered == IF IsErr(target) THEN target
                      ELSE add_engineered_features(target)
    IN IF IsErr(engineered) THEN engineered
       ELSE scale_numerical_features(
                one_hot_encode_categorical(encode_binary_columns(engineered)))

\* get_feature_matrix_and_target, then list(X.columns).
FeatureColumns(df) == SelectSeq(df.cols, LAMBDA c : c # "Churn")

-----------------------------------------------------------------------------
(* Input tables (the contents of data/churn.csv).                          *)

DataCols ==
    <<"customerID", "gender", "SeniorCitizen", "Partner", "tenure",
      "MultipleLines", "InternetService", "OnlineSecurity", "Contract",
      "PaymentMethod", "MonthlyCharges", "TotalCharges", "Churn">>

DataRow(id, gender, senior, partner, tenure, lines, internet, security, contract, payment, monthly, total, churn) ==
    [customerID |-> id, gender |-> gender, SeniorCitizen |-> senior,
     Partner |-> partner, tenure |-> tenure, MultipleLines |-> lines,
     InternetService |-> internet, OnlineSecurity |-> security,
     Contract |-> contract, PaymentMethod |-> payment,
     MonthlyCharges |-> monthly, TotalCharges |-> total, Churn |-> churn]

DatasetA ==
    [cols |-> DataCols,
     rows |-> <<
        DataRow("0001", "Female", 0, "Yes", 1, "No phone service", "DSL", "No",
                "Month-to-month", "Electronic check", 100, "1", "No"),
        DataRow("0002", "Male", 0, "No", 12, "No", "DSL", "Yes",
                "One year", "Mailed check", 200, "24", "No"),
        DataRow("0003", "Male", 1, "No", 0, "Yes", "Fiber optic", "No",
                "Two year", "Bank transfer (automatic)", 300, " ", "Yes"),
        DataRow("0004", "Female", 0, "Yes", 24, "No", "No", "No internet service",
                "Month-to-month", "Credit card (automatic)", 500, "120", "Yes")>>]

\* The same customers after a refresh of the file: the columns in another
\* order, other charges, one more row, a three-year contract in place of the
\* two-year one and no customer without internet service.
DatasetB ==
    [cols |-> <<"customerID", "MonthlyCharges", "Contract", "gender",
                "SeniorCitizen", "Partner", "tenure", "MultipleLines",
                "InternetService", "OnlineSecurity", "PaymentMethod",
                "TotalCharges", "Churn">>,
     rows |-> <<
        DataRow("0001", "Female", 0, "Yes", 2, "No phone service", "DSL", "No",
                "Month-to-month", "Electronic check", 200, "4", "No"),
        DataRow("0002", "Male", 0, "No", 13, "No", "DSL", "Yes",
                "One year", "Mailed check", 400, "52", "No"),
        DataRow("0003", "Male", 1, "No", 0, "Yes", "Fiber optic", "No",
                "Three year", "Bank transfer (automatic)", 400, " ", "Yes"),
        DataRow("0005", "Male", 0, "No", 6, "Yes", "Fiber optic", "Yes",
                "Month-to-month", "Electronic check", 500, "30", "No"),
        DataRow("0004", "Female", 0, "Yes", 20, "No", "DSL", "No",
                "Month-to-month", "Credit card (automatic)", 600, "120", "Yes")>>]

Datasets == <<DatasetA, DatasetB>>

-----------------------------------------------------------------------------
(* Files, processes and the service state.                                 *)

NoFile == [exists |-> FALSE]
\* A written artifact: what was dumped, and the run that wrote it.
FileOf(run, obj) == [exists |-> TRUE, run |-> run, obj |-> obj]
None == [none |-> TRUE]
Some(v) == [none |-> FALSE, v |-> v]
\* joblib.load / json.load of an artifact: the object, with its provenance.
Loaded(file) == [none |-> FALSE, run |-> file.run, obj |-> file.obj]

EmptyAppState ==
    [model |-> None, scaler |-> None, feature_columns |-> None,
     q33 |-> None, q66 |-> None]

Idle == [pc |-> "idle"]
NoRequest == [kind |-> "none"]
NoResponse == [status |-> 0]
EncOff == [pc |-> "off"]

\* pd.read_csv of the data file.
ReadCsv(file) == Datasets[file.id]

\* What preprocess() and the quantile computation of lifespan() return for
\* each table the data file can hold (computed once per table).
Preprocessed == [i \in DOMAIN Datasets |-> preprocess(Datasets[i])]
Thresholds ==
    [i \in DOMAIN Datasets |-> MonthlyQuantiles(load_and_clean_data(Datasets[i]))]

\* Test-set ROC-AUC values a candidate can score (ranks, 0 lowest).
MaxAuc == 1
AucValues == 0..MaxAuc
CandidateNames == <<"Logistic Regression", "Random Forest", "XGBoost">>

-----------------------------------------------------------------------------
(* src/train.py main(), and src/preprocessing.py run as a script.          *)

\* preprocess(save_scaler=True) at the head of a run: raises when the file is
\* missing or a stage raises (the process ends, nothing is written), else
\* dumps the scaler.
TrainPreprocess ==
    /\ train.pc = "idle"
    /\ runs < MaxRuns
    /\ runs' = runs + 1
    /\ LET pre == IF data_file.exists THEN Preprocessed[data_file.id]
                  ELSE Raised("FileNotFoundError")
       IN IF IsErr(pre)
          THEN /\ train' = Idle
               /\ UNCHANGED scaler_file
          ELSE /\ scaler_file' = FileOf(runs + 1, pre.scaler)
               /\ train' = [pc |-> "preprocessed", run |-> runs + 1,
                            feature_columns |-> FeatureColumns(pre.df),
                            q |-> Thresholds[data_file.id]]
    /\ UNCHANGED <<data_file, model_file, fc_file, svc, app_state, request,
                   response, enc>>

\* python src/preprocessing.py: preprocess(save_scaler=True) and nothing else.
PreprocessOnly ==
    /\ train.pc = "idle"
    /\ runs < MaxRuns
    /\ data_file.exists
    /\ LET pre == Preprocessed[data_file.id]
       IN /\ ~IsErr(pre)
          /\ scaler_file' = FileOf(runs + 1, pre.scaler)
    /\ runs' = runs + 1
    /\ UNCHANGED <<data_file, model_file, fc_file, train, svc, app_state,
                   request, response, enc>>

\* df_results["roc_auc"].idxmax(): the first candidate with the highest score.
IdxMax(results) ==
    CHOOSE i \in DOMAIN results :
        /\ \A j \in DOMAIN results : results[j] <= results[i]
        /\ \A j \in 1..(i - 1) : results[j] < results[i]

\* SelectFinal that takes the tuned model on a tie too.
MutSelectFinal(results, tuned) ==
    IF tuned >= results[IdxMax(results)] THEN "XGBoost_tuned"
    ELSE CandidateNames[IdxMax(results)]

\* Lines 150-198: the untuned best, replaced by the tuned model only when
\* its score is strictly higher.
SelectFinal(results, tuned) ==
    IF tuned > results[IdxMax(results)] THEN "XGBoost_tuned"
    ELSE CandidateNames[IdxMax(results)]

\* Lines 94-206: split, SMOTE, the three candidates, the search, the choice
\* of the final model and joblib.dump(final_model, model_path). The scores
\* are whatever the fitted models reach on the test set.
TrainFit ==
    /\ train.pc = "preprocessed"
    /\ \E results \in [DOMAIN CandidateNames -> AucValues], tuned \in AucValues :
          model_file' = FileOf(train.run,
                               [name |-> SelectFinal(results, tuned),
                                q33 |-> train.q.q33, q66 |-> train.q.q66])
    /\ train' = [pc |-> "model_saved", run |-> train.run,
                 feature_columns |-> train.feature_columns]
    /\ UNCHANGED <<data_file, scaler_file, fc_file, runs, svc, app_state,
                   request, response, enc>>

\* json.dump(feature_columns, f): the last write of the run.
SaveColumns ==
    /\ train.pc = "model_saved"
    /\ fc_file' = FileOf(train.run, train.feature_columns)
    /\ train' = Idle
    /\ UNCHANGED <<data_file, model_file, scaler_file, runs, svc, app_state,
                   request, response, enc>>

\* The run ends early: a library call raises (SMOTE, a fit, MLflow) or the
\* process is stopped. Nothing is rolled back.
TrainStop ==
    /\ train.pc \in {"preprocessed", "model_saved"}
    /\ train' = Idle
    /\ UNCHANGED <<data_file, model_file, scaler_file, fc_file, runs, svc,
                   app_state, request, response, enc>>

\* The data file is replaced or removed.
ChangeDataset ==
    /\ \E f \in {[exists |-> FALSE]} \cup
                {[exists |-> TRUE, id |-> i] : i \in DOMAIN Datasets} :
          /\ f # data_file
          /\ data_file' = f
    /\ UNCHANGED <<model_file, scaler_file, fc_file, train, runs, svc,
                   app_state, request, response, enc>>

\* One artifact is removed from models/.
LoseArtifact ==
    /\ \/ model_file.exists /\ model_file' = NoFile
          /\ UNCHANGED <<scaler_file, fc_file>>
       \/ scaler_file.exists /\ scaler_file' = NoFile
          /\ UNCHANGED <<model_file, fc_file>>
       \/ fc_file.exists /\ fc_file' = NoFile
          /\ UNCHANGED <<model_file, scaler_file>>
    /\ UNCHANGED <<data_file, train, runs, svc, app_state, request, response,
                   enc>>

-----------------------------------------------------------------------------
(* api/main.py: lifespan().                                                *)

\* The process ends with the exception: its app_state goes with it.
Abort ==
    /\ svc' = "aborted"
    /\ app_state' = EmptyAppState

\* Lines 160-168: all three artifact files must exist; then the model, the
\* scaler and the column list are loaded.
LifespanLoad ==
    /\ svc \in {"stopped", "aborted"}
    /\ IF model_file.exists /\ scaler_file.exists /\ fc_file.exists
       THEN /\ svc' = "loaded"
            /\ app_state' = [EmptyAppState EXCEPT
                                !.model = Loaded(model_file),
                                !.scaler = Loaded(scaler_file),
                                !.feature_columns = Loaded(fc_file)]
       ELSE Abort
    /\ UNCHANGED <<data_file, model_file, scaler_file, fc_file, train, runs,
                   request, response, enc>>

\* LifespanQuantiles that goes on to serve when the data file is missing.
MutLifespanQuantiles ==
    /\ svc = "loaded"
    /\ IF data_file.exists
       THEN LET q == Thresholds[data_file.id]
            IN /\ app_state' = [app_state EXCEPT !.q33 = Some(q.q33),
                                                 !.q66 = Some(q.q66)]
               /\ svc' = "serving"
       ELSE /\ svc' = "serving"
            /\ UNCHANGED app_state
    /\ UNCHANGED <<data_file, model_file, scaler_file, fc_file, train, runs,
                   request, response, enc>>

\* Lines 169-174: load_and_clean_data() raises when the data file is
\* missing; else the thresholds are computed from the file as it is now, and
\* the service starts to accept requests.
LifespanQuantiles ==
    /\ svc = "loaded"
    /\ IF data_file.exists
       THEN LET q == Thresholds[data_file.id]
            IN /\ app_state' = [app_state EXCEPT !.q33 = Some(q.q33),
                                                 !.q66 = Some(q.q66)]
               /\ svc' = "serving"
       ELSE Abort
    /\ UNCHANGED <<data_file, model_file, scaler_file, fc_file, train, runs,
                   request, response, enc>>

\* The service process is stopped.
ServiceStop ==
    /\ svc = "serving"
    /\ svc' = "stopped"
    /\ app_state' = EmptyAppState
    /\ request' = NoRequest
    /\ response' = NoResponse
    /\ UNCHANGED <<data_file, model_file, scaler_file, fc_file, train, runs,
                   enc>>

-----------------------------------------------------------------------------
(* api/main.py: predict() and health().                                    *)

\* scaler.transform(num_vals)[0]: refuses a row of another width.
ScalerTransform(scaler, num_vals) ==
    IF Len(scaler.stats) # Len(num_vals) THEN Raised("ValueError")
    ELSE [scaled |-> [k \in DOMAIN num_vals |->
                         TransformValue(num_vals[k], scaler.stats[k])]]

IndexOf(seq, x) == CHOOSE k \in DOMAIN seq : seq[k] = x

\* BuildVector that skips the manifest columns the row does not have.
MutBuildVector(feature_columns, row, scaled_num) ==
    LET known == SelectSeq(feature_columns, LAMBDA c : c \in DOMAIN row)
    IN [i \in DOMAIN known |->
          IF known[i] \in Range(numerical_cols)
          THEN scaled_num[IndexOf(numerical_cols, known[i])]
          ELSE IntToFloat(row[known[i]])]

\* Lines 209-215: one entry per manifest column, in manifest order.
BuildVector(feature_columns, row, scaled_num) ==
    LET numerical == Range(numerical_cols)
    IN [i \in DOMAIN feature_columns |->
          LET c == feature_columns[i]
          IN IF c \in numerical
             THEN scaled_num[IndexOf(numerical_cols, c)]
             ELSE IntToFloat(IF c \in DOMAIN row THEN row[c] ELSE 0)]

\* The probabilities p/1000 with p ending in 5 that round(p/1000, 2) rounds
\* up: the double nearest to p/1000 lies above the decimal tie (0.505), or is
\* the tie itself and the even neighbour is the upper one (0.375, 0.875).
TiesRoundedUp ==
    {5, 25, 35, 55, 65, 85, 95, 115, 135, 165, 195, 225, 255, 265, 275, 315,
     325, 335, 375, 385, 395, 405, 445, 455, 465, 505, 515, 525, 535, 545,
     555, 635, 645, 655, 665, 675, 685, 755, 765, 775, 785, 795, 805, 875,
     885, 895, 905, 915, 925, 935}

\* round(proba, 2), in hundredths.
Round2(proba) ==
    IF proba % 10 > 5 \/ (proba % 10 = 5 /\ proba \in TiesRoundedUp)
    THEN proba \div 10 + 1
    ELSE proba \div 10

Prediction(proba) ==
    IF proba >= 500 THEN "Likely to Churn" ELSE "Not Likely"

\* Confidence with the Medium test ahead of the High test.
MutConfidence(proba) ==
    IF proba >= 600 \/ proba <= 400 THEN "Medium"
    ELSE IF proba >= 800 \/ proba <= 200 THEN "High"
    ELSE "Low"

Confidence(proba) ==
    IF proba >= 800 \/ proba <= 200 THEN "High"
    ELSE IF proba >= 600 \/ proba <= 400 THEN "Medium"
    ELSE "Low"

\* predict that tests the model alone before it goes on.
MutPredict(state, req, proba) ==
    IF state.model.none
    THEN [status |-> 503, detail |-> "Model not loaded"]
    ELSE IF state.scaler.none \/ state.feature_columns.none
              \/ state.q33.none \/ state.q66.none
    THEN [status |-> 500, detail |-> "TypeError"]
    ELSE
      LET row == build_feature_row(req, state.q33.v, state.q66.v)
          num_vals == <<IntToFloat(row["tenure"]), F(row["MonthlyCharges"]),
                        F(row["TotalCharges"]), F(row["total_spend"])>>
          scaled_num == ScalerTransform(state.scaler.obj, num_vals)
      IN IF IsErr(scaled_num)
         THEN [status |-> 500, detail |-> scaled_num.err]
         ELSE [status |-> 200,
               row |-> row,
               X |-> BuildVector(state.feature_columns.obj, row,
                                 scaled_num.scaled),
               proba |-> proba,
               churn_probability |-> Round2(proba),
               prediction |-> Prediction(proba),
               confidence |-> Confidence(proba)]

\* predict(request), with proba the value model.predict_proba(X)[0, 1]
\* returns for the vector.
predict(state, req, proba) ==
    IF state.model.none \/ state.scaler.none \/ state.feature_columns.none
    THEN [status |-> 503, detail |-> "Model not loaded"]
    ELSE IF state.q33.none \/ state.q66.none
    THEN [status |-> 500, detail |-> "TypeError"]
    ELSE
      LET row == build_feature_row(req, state.q33.v, state.q66.v)
          num_vals == <<IntToFloat(row["tenure"]), F(row["MonthlyCharges"]),
                        F(row["TotalCharges"]), F(row["total_spend"])>>
          scaled_num == ScalerTransform(state.scaler.obj, num_vals)
      IN IF IsErr(scaled_num)
         THEN [status |-> 500, detail |-> scaled_num.err]
         ELSE [status |-> 200,
               row |-> row,
               X |-> BuildVector(state.feature_columns.obj, row,
                                 scaled_num.scaled),
               proba |-> proba,
               churn_probability |-> Round2(proba),
               prediction |-> Prediction(proba),
               confidence |-> Confidence(proba)]

\* A valid request is handled once startup has completed.
Predict(requests, probas) ==
    /\ svc = "serving"
    /\ \E req \in requests, proba \in probas :
          /\ request' = [kind |-> "predict", body |-> req]
          /\ response' = predict(app_state, req, proba)
    /\ UNCHANGED <<data_file, model_file, scaler_file, fc_file, train, runs,
                   svc, app_state, enc>>

\* health() that clears an entry of app_state.
MutHealth ==
    /\ svc = "serving"
    /\ request' = [kind |-> "health"]
    /\ response' = [status |-> 200, body |-> "ok"]
    /\ app_state' = [app_state EXCEPT !.q33 = None]
    /\ UNCHANGED <<data_file, model_file, scaler_file, fc_file, train, runs,
                   svc, enc>>

Health ==
    /\ svc = "serving"
    /\ request' = [kind |-> "health"]
    /\ response' = [status |-> 200, body |-> "ok"]
    /\ UNCHANGED <<data_file, model_file, scaler_file, fc_file, train, runs,
                   svc, app_state, enc>>

\* Requests and probabilities the service is driven with.
SampleRequests ==
    {BaseRequest,
     [BaseRequest EXCEPT !.contract = "Three year", !.internet_service = "Cable",
                         !.payment_method = "Direct Debit", !.tenure = 30,
                         !.monthly_charges = 450, !.gender = "Female"]}
SampleProbas == {300, 800}

ServePredict == Predict(SampleRequests, SampleProbas)

-----------------------------------------------------------------------------
(* The system: the file store, training runs and the service.              *)

Init ==
    /\ data_file \in {[exists |-> FALSE]} \cup
                     {[exists |-> TRUE, id |-> i] : i \in DOMAIN Datasets}
    /\ model_file = NoFile
    /\ scaler_file = NoFile
    /\ fc_file = NoFile
    /\ train = Idle
    /\ runs = 0
    /\ svc = "stopped"
    /\ app_state = EmptyAppState
    /\ request = NoRequest
    /\ response = NoResponse
    /\ enc = EncOff

Next ==
    \/ TrainPreprocess
    \/ PreprocessOnly
    \/ TrainFit
    \/ SaveColumns
    \/ TrainStop
    \/ ChangeDataset
    \/ LoseArtifact
    \/ LifespanLoad
    \/ LifespanQuantiles
    \/ ServiceStop
    \/ ServePredict
    \/ Health

Spec == Init /\ [][Next]_vars

-----------------------------------------------------------------------------
(* The encoders applied on their own: build_feature_row on a request, and  *)
(* the training-time encoders on the same raw values.                      *)

\* The request field each binary column is built from (lines 93-105).
BinaryField ==
    [gender |-> "gender", Partner |-> "partner", Dependents |-> "dependents",
     PhoneService |-> "phone_service", PaperlessBilling |-> "paperless_billing",
     OnlineSecurity |-> "online_security", OnlineBackup |-> "online_backup",
     DeviceProtection |-> "device_protection", TechSupport |-> "tech_support",
     StreamingTV |-> "streaming_tv", StreamingMovies |-> "streaming_movies"]

\* Values a text field of a request is given.
YesNoValues == {"Yes", "No", "No internet service", "yes", " Yes ", "YES", ""}
FieldValues ==
    [f \in {BinaryField[c] : c \in DOMAIN BinaryField} \cup
           {"contract", "internet_service", "payment_method", "multiple_lines"} |->
        CASE f = "gender" -> {"Male", "Female", "male", " Female ", "Other"}
          [] f = "contract" ->
                {"Month-to-month", "One year", "Two year", "Three year",
                 "month-to-month", " One year ", ""}
          [] f = "internet_service" ->
                {"DSL", "Fiber optic", "No", "Cable", "dsl", " No "}
          [] f = "payment_method" ->
                {"Bank transfer (automatic)", "Credit card (automatic)",
                 "Electronic check", "Mailed check", "Direct Debit",
                 "automatic Bank draft", "automatic", "Bank draft",
                 "bank transfer", "Mailed Credit card",
                 "Electronic Bank transfer", "Mailed Electronic",
                 "Electronic Mailed", " Mailed check ", "Credit card", ""}
          [] f = "multiple_lines" ->
                {"No", "Yes", "No phone service", "NO PHONE SERVICE", "Maybe",
                 " yes", ""}
          [] OTHER -> YesNoValues]

\* What the encoders are applied to: a request and the two thresholds.
EncInput(req, q33, q66) ==
    [req |-> req, q33 |-> q33, q66 |-> q66,
     inference |-> [done |-> FALSE], training |-> [done |-> FALSE]]

\* BaseRequest with a charge of 3 against the thresholds 2 and 4, changed in
\* one text field, in the senior flag or in tenure; and BaseRequest with
\* every charge against every pair of thresholds q33 <= q66 of the grid.
EncInputs ==
    LET base == [BaseRequest EXCEPT !.monthly_charges = 3]
    IN UNION {{EncInput([base EXCEPT ![f] = v], 2, 4) : v \in FieldValues[f]} :
                      f \in DOMAIN FieldValues}
       \cup {EncInput([base EXCEPT !.senior_citizen = 1], 2, 4)}
       \cup {EncInput([base EXCEPT !.tenure = t], 2, 4) : t \in 0..MaxTenure}
       \cup {EncInput([base EXCEPT !.monthly_charges = v], lo, hi) :
                v \in 0..MaxCharge, lo \in 0..MaxCharge, hi \in 0..MaxCharge}

\* The raw record of a request as a one-row table of the training file:
\* the text columns as given, tenure and the charge as numbers.
RawTable(req) ==
    [cols |-> binary_cols \o <<"tenure", "MonthlyCharges">>,
     rows |-> <<[c \in Range(binary_cols) \cup {"tenure", "MonthlyCharges"} |->
                    IF c = "tenure" THEN req.tenure
                    ELSE IF c = "MonthlyCharges" THEN req.monthly_charges
                    ELSE req[BinaryField[c]]]>>]

\* build_feature_row and its two bucket functions on the input.
EncodeInference ==
    /\ ~enc.inference.done
    /\ enc' = [enc EXCEPT !.inference =
                  [done |-> TRUE,
                   row |-> build_feature_row(enc.req, enc.q33, enc.q66),
                   tenure_group |-> _bucket_tenure(enc.req.tenure),
                   monthly_bucket |->
                       _bucket_monthly(enc.req.monthly_charges, enc.q33, enc.q66)]]
    /\ UNCHANGED <<data_file, model_file, scaler_file, fc_file, train, runs,
                   svc, app_state, request, response>>

\* encode_binary_columns and the two binnings of add_engineered_features on
\* the same raw values.
EncodeTraining ==
    /\ ~enc.training.done
    /\ LET df == RawTable(enc.req)
       IN enc' = [enc EXCEPT !.training =
                     [done |-> TRUE,
                      binary |-> encode_binary_columns(df).rows[1],
                      tenure_group |-> TenureCut(Column(df, "tenure")),
                      monthly_bucket |->
                          MonthlyCut(Column(df, "MonthlyCharges"),
                                     enc.q33, enc.q66)]]
    /\ UNCHANGED <<data_file, model_file, scaler_file, fc_file, train, runs,
                   svc, app_state, request, response>>

InitEnc ==
    /\ data_file = NoFile
    /\ model_file = NoFile
    /\ scaler_file = NoFile
    /\ fc_file = NoFile
    /\ train = Idle
    /\ runs = 0
    /\ svc = "stopped"
    /\ app_state = EmptyAppState
    /\ request = NoRequest
    /\ response = NoResponse
    /\ enc \in {i \in EncInputs : i.q33 <= i.q66}

NextEnc == EncodeInference \/ EncodeTraining

SpecEnc == InitEnc /\ [][NextEnc]_vars

-----------------------------------------------------------------------------
(* The service after one complete training run on the first table and a    *)
(* completed startup, given the probabilities the model can return.        *)

ServingState ==
    LET pre == Preprocessed[1]
        q == Thresholds[1]
        model == FileOf(1, [name |-> "Logistic Regression",
                            q33 |-> q.q33, q66 |-> q.q66])
    IN [data_file |-> [exists |-> TRUE, id |-> 1],
        model_file |-> model,
        scaler_file |-> FileOf(1, pre.scaler),
        fc_file |-> FileOf(1, FeatureColumns(pre.df)),
        app_state |-> [model |-> Loaded(model),
                       scaler |-> Loaded(FileOf(1, pre.scaler)),
                       feature_columns |-> Loaded(FileOf(1, FeatureColumns(pre.df))),
                       q33 |-> Some(q.q33), q66 |-> Some(q.q66)]]

InitResp ==
    /\ data_file = ServingState.data_file
    /\ model_file = ServingState.model_file
    /\ scaler_file = ServingState.scaler_file
    /\ fc_file = ServingState.fc_file
    /\ train = Idle
    /\ runs = 1
    /\ svc = "serving"
    /\ app_state = ServingState.app_state
    /\ request = NoRequest
    /\ response = NoResponse
    /\ enc = EncOff

\* Probabilities in thousandths: every 0.025, and every thousandth within
\* 0.006 of the two ends, of the label threshold and of the tier thresholds.
ProbaGrid ==
    {p \in 0..1000 :
        \/ p % 25 = 0
        \/ \E c \in {0, 200, 400, 500, 600, 800, 1000} : p - c \in -6..6}

\* predict() on BaseRequest with any probability of the grid.
PredictAnyProba == Predict({BaseRequest}, ProbaGrid)

NextResp == PredictAnyProba \/ Health

SpecResp == InitResp /\ [][NextResp]_vars

\* The state SpecResp starts in is a state of Spec.
ServingStateReached ==
    /\ data_file = ServingState.data_file
    /\ model_file = ServingState.model_file
    /\ scaler_file = ServingState.scaler_file
    /\ fc_file = ServingState.fc_file
    /\ train = Idle
    /\ runs = 1
    /\ svc = "serving"
    /\ app_state = ServingState.app_state

-----------------------------------------------------------------------------
(* Properties of the encoders (SpecEnc).                                   *)

\* Both encoders have been applied to the input.
EncodedBoth == enc.inference.done /\ enc.training.done

\* The raw values of a binary column that the training file holds.
TrainingVocabulary(col) ==
    IF col = "gender" THEN {"Male", "Female"}
    ELSE {"Yes", "No", "No internet service"}

\* C1: for every binary column and every raw value of its training
\* vocabulary, the 0/1 that build_feature_row puts in the column equals the
\* 0/1 that encode_binary_columns produces for the same raw value.
C1_BinaryParity ==
    EncodedBoth =>
        \A c \in Range(binary_cols) :
            enc.req[BinaryField[c]] \in TrainingVocabulary(c)
                => enc.inference.row[c] = enc.training.binary[c]

\* C7: for every tenure >= 0, _bucket_tenure returns the label of the
\* half-open bin [0,13), [13,25), [25,49), [49,61), [61,inf) that holds it,
\* and the training binning assigns the same label.
C7_TenureBuckets ==
    EncodedBoth =>
        LET t == enc.req.tenure
            g == enc.inference.tenure_group
        IN /\ (g = "0-12") <=> (0 <= t /\ t < 13)
           /\ (g = "13-24") <=> (13 <= t /\ t < 25)
           /\ (g = "25-48") <=> (25 <= t /\ t < 49)
           /\ (g = "49-60") <=> (49 <= t /\ t < 61)
           /\ (g = "60+") <=> (61 <= t)
           /\ ~IsErr(enc.training.tenure_group)
           /\ enc.training.tenure_group.labels = <<g>>

\* A tenure on the last boundary has been binned by both sides.
C7_Witness ==
    /\ EncodedBoth
    /\ enc.req.tenure = 61
    /\ enc.inference.tenure_group = "60+"

BucketRank(b) == CASE b = "low" -> 1 [] b = "medium" -> 2 [] b = "high" -> 3

\* What C8 says of _bucket_monthly alone: the three cases, and monotonic
\* in the charge.
MonthlyPiecewise ==
    LET v == enc.req.monthly_charges
        b == enc.inference.monthly_bucket
    IN /\ (b = "low") <=> (v <= enc.q33)
       /\ (b = "medium") <=> (enc.q33 < v /\ v <= enc.q66)
       /\ (b = "high") <=> (v > enc.q66)
       /\ \A w \in 0..MaxCharge :
            w <= v => BucketRank(_bucket_monthly(w, enc.q33, enc.q66))
                         <= BucketRank(b)

\* C8 as stated: for every charge v and thresholds q33 <= q66 the bucket is
\* low / medium / high by v <= q33, q33 < v <= q66, v > q66, monotonic in v,
\* and the training binning assigns the same bucket to v.
C8_AsStated ==
    EncodedBoth =>
        /\ MonthlyPiecewise
        /\ ~IsErr(enc.training.monthly_bucket)
        /\ enc.training.monthly_bucket.labels = <<enc.inference.monthly_bucket>>

\* C8, amended: the three cases and monotonicity for q33 <= q66; the
\* training binning assigns the same bucket when q33 < q66, and raises
\* ValueError (duplicate bin edges) when q33 = q66.
C8_MonthlyBuckets ==
    EncodedBoth =>
        /\ MonthlyPiecewise
        /\ enc.q33 < enc.q66 =>
              /\ ~IsErr(enc.training.monthly_bucket)
              /\ enc.training.monthly_bucket.labels
                    = <<enc.inference.monthly_bucket>>
        /\ enc.q33 = enc.q66 =>
              enc.training.monthly_bucket = Raised("ValueError")

\* A charge equal to the lower of two distinct thresholds has been binned
\* by both sides.
C8_Witness ==
    /\ EncodedBoth
    /\ enc.q33 < enc.q66
    /\ enc.req.monthly_charges = enc.q33
    /\ enc.inference.monthly_bucket = "low"

\* All indicator columns of a group are 0 in the row.
AllZero(row, columns) == \A c \in Range(columns) : row[c] = 0

\* Exactly the given column of a group is 1 in the row, the others 0.
OnlyOne(row, columns, col) ==
    \A c \in Range(columns) : row[c] = (IF c = col THEN 1 ELSE 0)

\* The request's value matches none of the field's categories.
UnknownContract ==
    Strip(enc.req.contract) \notin {"Month-to-month", "One year", "Two year"}
UnknownInternet ==
    Strip(enc.req.internet_service) \notin {"DSL", "Fiber optic", "No"}
UnknownMultipleLines ==
    Lower(Strip(enc.req.multiple_lines)) \notin {"no", "yes", "no phone service"}
UnknownPayment ==
    \A word \in {"Bank", "Credit card", "Electronic", "Mailed"} :
        ~Contains(enc.req.payment_method, word)

C10_PaymentRules ==
    enc.inference.done =>
        LET pm == enc.req.payment_method
            chosen ==
                IF Contains(pm, "Bank transfer")
                     \/ (Contains(pm, "automatic") /\ Contains(pm, "Bank"))
                THEN "PaymentMethod_Bank transfer (automatic)"
                ELSE IF Contains(pm, "Credit card")
                THEN "PaymentMethod_Credit card (automatic)"
                ELSE IF Contains(pm, "Electronic")
                THEN "PaymentMethod_Electronic check"
                ELSE IF Contains(pm, "Mailed")
                THEN "PaymentMethod_Mailed check"
                ELSE "PaymentMethod_Electronic check"
        IN /\ OnlyOne(enc.inference.row, PaymentColumns, chosen)
           /\ Cardinality({c \in Range(PaymentColumns) :
                              enc.inference.row[c] = 1}) = 1

\* A row has been built for a string that two rules match.
C10_Witness ==
    /\ enc.inference.done
    /\ enc.req.payment_method = "Mailed Electronic"
    /\ enc.inference.row["PaymentMethod_Electronic check"] = 1
    /\ enc.inference.row["PaymentMethod_Mailed check"] = 0

-----------------------------------------------------------------------------
(* Properties of the service (Spec, SpecResp).                             *)

\* predict has returned a prediction for the last request.
Answered == request.kind = "predict" /\ response.status = 200

\* C2: the vector given to the model has one entry per manifest column, and
\* entry i is the scaled value when column i is tenure, MonthlyCharges,
\* TotalCharges or total_spend, else the row's value for column i, else 0
\* when the row has no such column.
C2_VectorByManifest ==
    Answered =>
        LET fc == app_state.feature_columns.obj
            row == response.row
            scaled == ScalerTransform(
                          app_state.scaler.obj,
                          <<IntToFloat(row["tenure"]), F(row["MonthlyCharges"]),
                            F(row["TotalCharges"]), F(row["total_spend"])>>).scaled
        IN /\ row = build_feature_row(request.body, app_state.q33.v,
                                      app_state.q66.v)
           /\ Len(response.X) = Len(fc)
           /\ \A i \in 1..Len(fc) :
                response.X[i] =
                    CASE fc[i] = "tenure" -> scaled[1]
                      [] fc[i] = "MonthlyCharges" -> scaled[2]
                      [] fc[i] = "TotalCharges" -> scaled[3]
                      [] fc[i] = "total_spend" -> scaled[4]
                      [] OTHER -> IntToFloat(IF fc[i] \in DOMAIN row
                                             THEN row[fc[i]] ELSE 0)

\* A request with an unknown contract has been answered under a manifest
\* that has a column no row has.
C2_Witness ==
    /\ Answered
    /\ request.body.contract = "Three year"
    /\ \E i \in DOMAIN app_state.feature_columns.obj :
          /\ app_state.feature_columns.obj[i] = "Contract_Three year"
          /\ response.X[i] = IntToFloat(0)

\* C3: whenever predict returns a prediction, the loaded model, scaler and
\* manifest were written by the same training run.
C3_ConsistentBundle ==
    Answered =>
        /\ app_state.model.run = app_state.scaler.run
        /\ app_state.model.run = app_state.feature_columns.run

\* C4: whenever predict returns a prediction, the thresholds it bucketed
\* the charge with are the two values the served model was trained with.
C4_TrainedThresholds ==
    Answered =>
        /\ app_state.q33.v = app_state.model.obj.q33
        /\ app_state.q66.v = app_state.model.obj.q66

\* C5: the churn_probability of a response is in [0,1], and the prediction
\* is "Likely to Churn" exactly when that churn_probability is >= 0.5.
C5_LabelMatchesProbability ==
    Answered =>
        /\ response.churn_probability \in 0..100
        /\ (response.prediction = "Likely to Churn")
              <=> (response.churn_probability >= 50)
        /\ response.prediction \in {"Likely to Churn", "Not Likely"}

\* C6: with p the probability the model returned, the tier is High exactly
\* when p >= 0.8 or p <= 0.2 (also where p >= 0.6 or p <= 0.4 holds too),
\* Medium exactly when 0.6 <= p < 0.8 or 0.2 < p <= 0.4, Low exactly when
\* 0.4 < p < 0.6; one of the three for every p.
C6_ConfidenceTiers ==
    Answered =>
        LET p == response.proba
            t == response.confidence
        IN /\ t \in {"High", "Medium", "Low"}
           /\ (t = "High") <=> (p >= 800 \/ p <= 200)
           /\ (t = "Medium") <=> ((600 <= p /\ p < 800) \/ (200 < p /\ p <= 400))
           /\ (t = "Low") <=> (400 < p /\ p < 600)

\* A probability in both stated bands has been answered with High.
C6_Witness ==
    /\ Answered
    /\ response.proba = 800
    /\ response.confidence = "High"

-----------------------------------------------------------------------------
(* The shape of the row that build_feature_row returns (SpecEnc).          *)

\* The number of indicators of a group that are 1 in the row.
OnesIn(row, columns) == Cardinality({c \in Range(columns) : row[c] = 1})

\* The names the dict literal and the six zero-fill loops give a row.
RowNames ==
    DOMAIN BaseRow(BaseRequest)
        \cup Range(ContractColumns) \cup Range(InternetColumns)
        \cup Range(PaymentColumns) \cup Range(MultipleLinesColumns)
        \cup Range(TenureGroupColumns) \cup Range(MonthlyBucketColumns)

\* C16: the row has exactly one indicator at 1 in each of tenure_group_*,
\* monthly_charges_bucket_*, PaymentMethod_* and MultipleLines_*, at most
\* one in each of Contract_* and InternetService_*; every indicator is 0
\* or 1, and the row has no column outside the fixed set of names.
C16_OneHotGroups ==
    enc.inference.done =>
        LET row == enc.inference.row
        IN /\ DOMAIN row = RowNames
           /\ \A g \in {TenureGroupColumns, MonthlyBucketColumns,
                        PaymentColumns, MultipleLinesColumns} :
                 OnesIn(row, g) = 1
           /\ \A g \in {ContractColumns, InternetColumns} : OnesIn(row, g) <= 1
           /\ \A g \in {TenureGroupColumns, MonthlyBucketColumns,
                        PaymentColumns, MultipleLinesColumns,
                        ContractColumns, InternetColumns} :
                 \A c \in Range(g) : row[c] \in {0, 1}

\* A row has been built for an internet service that is no category: its
\* InternetService group has no indicator at 1.
C16_Witness ==
    /\ enc.inference.done
    /\ enc.req.internet_service = "Cable"
    /\ OnesIn(enc.inference.row, InternetColumns) = 0
    /\ OnesIn(enc.inference.row, PaymentColumns) = 1

-----------------------------------------------------------------------------
(* The choice of the final model of train.py on its own: the test-set      *)
(* ROC-AUC of the three candidates and of the tuned model are the inputs.  *)

MaxScore == 3

SelectInputs ==
    {[results |-> r, tuned |-> t, final |-> None] :
        r \in [DOMAIN CandidateNames -> 0..MaxScore], t \in 0..MaxScore}

\* Lines 150-198 of main(): best_name, best_roc, the comparison with the
\* tuned model; final is the name of the model that joblib.dump persists.
SelectModel ==
    /\ enc.final.none
    /\ enc' = [enc EXCEPT !.final = Some(SelectFinal(enc.results, enc.tuned))]
    /\ UNCHANGED <<data_file, model_file, scaler_file, fc_file, train, runs,
                   svc, app_state, request, response>>

InitSelect ==
    /\ data_file = NoFile
    /\ model_file = NoFile
    /\ scaler_file = NoFile
    /\ fc_file = NoFile
    /\ train = Idle
    /\ runs = 0
    /\ svc = "stopped"
    /\ app_state = EmptyAppState
    /\ request = NoRequest
    /\ response = NoResponse
    /\ enc \in SelectInputs

NextSelect == SelectModel

SpecSelect == InitSelect /\ [][NextSelect]_vars

\* The highest score among the three untuned candidates.
BestUntuned ==
    CHOOSE b \in Range(enc.results) : \A x \in Range(enc.results) : x <= b

\* C15: the persisted model is the tuned one exactly when the tuned score
\* is strictly greater than the highest untuned score; otherwise (a tie
\* included) it is an untuned candidate that has the highest untuned score.
C15_FinalModel ==
    ~enc.final.none =>
        /\ (enc.final.v = "XGBoost_tuned") <=> (enc.tuned > BestUntuned)
        /\ enc.final.v # "XGBoost_tuned" =>
              \E i \in DOMAIN CandidateNames :
                  /\ CandidateNames[i] = enc.final.v
                  /\ enc.results[i] = BestUntuned

\* The choice has been made with the tuned score equal to the best untuned
\* one, and an untuned candidate was kept.
C15_Witness ==
    /\ ~enc.final.none
    /\ enc.tuned = BestUntuned
    /\ enc.final.v = "Random Forest"

-----------------------------------------------------------------------------
(* load_and_clean_data on its own: the table read from the csv is the      *)
(* input.                                                                  *)

MaxRows == 3

\* Text cells of the TotalCharges column: whole numbers, a blank, an empty
\* cell, a word.
ChargeCells == {"1", "24", "120", " ", "", "n/a"}

\* Tables of 1..MaxRows rows, with and without the customerID column.
CleanInputs ==
    UNION {{[table |-> [cols |-> cols,
                        rows |-> [i \in 1..n |->
                                    [c \in Range(cols) |->
                                        IF c = "customerID" THEN "0001"
                                        ELSE cells[i]]]],
             out |-> None] :
               cells \in [1..n -> ChargeCells],
               cols \in {<<"customerID", "TotalCharges">>, <<"TotalCharges">>}} :
           n \in 1..MaxRows}

\* load_and_clean_data() once pd.read_csv has returned the table.
CleanTable ==
    /\ enc.out.none
    /\ enc' = [enc EXCEPT !.out = Some(load_and_clean_data(enc.table))]
    /\ UNCHANGED <<data_file, model_file, scaler_file, fc_file, train, runs,
                   svc, app_state, request, response>>

InitClean ==
    /\ data_file = NoFile
    /\ model_file = NoFile
    /\ scaler_file = NoFile
    /\ fc_file = NoFile
    /\ train = Idle
    /\ runs = 0
    /\ svc = "stopped"
    /\ app_state = EmptyAppState
    /\ request = NoRequest
    /\ response = NoResponse
    /\ enc \in CleanInputs

NextClean == CleanTable

SpecClean == InitClean /\ [][NextClean]_vars

\* C14: the table returned has as many rows as the input, no customerID
\* column, and a TotalCharges column in which every value is a number: the
\* parsed value, or for a cell that does not parse the median of the cells
\* of the table that do.
C14_CleanedTable ==
    ~enc.out.none =>
        LET in == enc.table
            out == enc.out.v
            parsed == [i \in DOMAIN in.rows |-> ToNumeric(in.rows[i]["TotalCharges"])]
        IN /\ Len(out.rows) = Len(in.rows)
           /\ ~HasCol(out, "customerID")
           /\ \A i \in DOMAIN out.rows : "customerID" \notin DOMAIN out.rows[i]
           /\ HasCol(out, "TotalCharges")
           /\ \A i \in DOMAIN out.rows :
                 /\ ~out.rows[i]["TotalCharges"].nan
                 /\ out.rows[i]["TotalCharges"] =
                       (IF parsed[i].nan THEN Median(parsed) ELSE parsed[i])

-----------------------------------------------------------------------------
(* predict() called while startup has not completed: the app driven         *)
(* without waiting for its lifespan, which makes its five assignments to   *)
(* app_state one after the other.                                          *)

\* The next of the assignments of lines 165-173.
StartupStep ==
    /\ svc = "starting"
    /\ \/ /\ app_state.model.none
          /\ app_state' = [app_state EXCEPT !.model = Loaded(model_file)]
       \/ /\ ~app_state.model.none /\ app_state.scaler.none
          /\ app_state' = [app_state EXCEPT !.scaler = Loaded(scaler_file)]
       \/ /\ ~app_state.scaler.none /\ app_state.feature_columns.none
          /\ app_state' = [app_state EXCEPT
                              !.feature_columns = Loaded(fc_file)]
       \/ /\ ~app_state.feature_columns.none /\ app_state.q33.none
          /\ app_state' = [app_state EXCEPT
                              !.q33 = Some(Thresholds[data_file.id].q33)]
       \/ /\ ~app_state.q33.none /\ app_state.q66.none
          /\ app_state' = [app_state EXCEPT
                              !.q66 = Some(Thresholds[data_file.id].q66)]
    /\ UNCHANGED <<data_file, model_file, scaler_file, fc_file, train, runs,
                   svc, request, response, enc>>

\* predict() on BaseRequest, whatever app_state holds.
DirectPredict ==
    /\ \E req \in {BaseRequest}, proba \in ProbaGrid :
          /\ request' = [kind |-> "predict", body |-> req]
          /\ response' = predict(app_state, req, proba)
    /\ UNCHANGED <<data_file, model_file, scaler_file, fc_file, train, runs,
                   svc, app_state, enc>>

InitDirect ==
    /\ data_file = ServingState.data_file
    /\ model_file = ServingState.model_file
    /\ scaler_file = ServingState.scaler_file
    /\ fc_file = ServingState.fc_file
    /\ train = Idle
    /\ runs = 1
    /\ svc = "starting"
    /\ app_state = EmptyAppState
    /\ request = NoRequest
    /\ response = NoResponse
    /\ enc = EncOff

NextDirect == StartupStep \/ DirectPredict

SpecDirect == InitDirect /\ [][NextDirect]_vars

\* The model, the scaler or the manifest is not loaded.
NotLoaded ==
    app_state.model.none \/ app_state.scaler.none
        \/ app_state.feature_columns.none

\* C11: a predict request handled while the model, the scaler or the
\* manifest is not loaded is answered with status 503 and no probability
\* is asked of the model; handling a request leaves the process running
\* and app_state as it was.
C11_Unavailable ==
    /\ [](request.kind = "predict" /\ NotLoaded
            => /\ response.status = 503
               /\ "proba" \notin DOMAIN response)
    /\ [][request' # request \/ response' # response
            => /\ app_state' = app_state /\ svc' = svc
               /\ NotLoaded => /\ response'.status = 503
                               /\ "proba" \notin DOMAIN response']_vars

\* A request has been answered 503 with the model and the scaler loaded
\* and the manifest not.
C11_Witness ==
    /\ request.kind = "predict"
    /\ response.status = 503
    /\ ~app_state.model.none
    /\ ~app_state.scaler.none
    /\ app_state.feature_columns.none

-----------------------------------------------------------------------------
(* Startup and the read-only shared state (Spec).                          *)

\* All five entries of app_state are set.
AllSet ==
    /\ ~app_state.model.none
    /\ ~app_state.scaler.none
    /\ ~app_state.feature_columns.none
    /\ ~app_state.q33.none
    /\ ~app_state.q66.none

ArtifactsExist == model_file.exists /\ scaler_file.exists /\ fc_file.exists

\* C12: a startup that finds an artifact or the data file missing ends
\* with the exception and never comes to accept requests: the artifacts are
\* loaded only when all three exist, serving starts only from there and
\* only when the data file exists; so wherever the service accepts or has
\* handled a request, all five entries of app_state are set.
C12_StartupAborts ==
    /\ [](svc = "serving" \/ request.kind # "none" => AllSet)
    /\ [][/\ (svc \in {"stopped", "aborted"} /\ svc' # svc /\ ~ArtifactsExist)
                => svc' = "aborted"
          /\ (svc = "loaded" /\ svc' # svc /\ ~data_file.exists)
                => svc' = "aborted"
          /\ (svc' = "loaded" /\ svc # "loaded") => ArtifactsExist
          /\ (svc' = "serving" /\ svc # "serving")
                => svc = "loaded" /\ data_file.exists]_vars

\* A startup has ended with the exception because the data file alone was
\* missing.
C12_Witness ==
    /\ svc = "aborted"
    /\ ~data_file.exists
    /\ ArtifactsExist

=============================================================================
